---- MODULE Spec2Model ----
(***************************************************************************)
(* simplex: a source-based package manager (src/src/main.rs).              *)
(*                                                                         *)
(* The model covers PackageManager: the store layout on disk, the          *)
(* in-memory index installed_packages, the process working directory and   *)
(* the fetch -> build -> install_package pipeline that run() drives,       *)
(* together with remove_package and the startup rebuild of the index, the  *)
(* manifest parser (parse_package_description) and run()'s handling of     *)
(* the command line.                                                       *)
(*                                                                         *)
(* Strings the code splits or joins (package names, versions, directory    *)
(* names, identity keys) are sequences of one-character strings, so that   *)
(* format!("{}-{}") and rsplit_once('-') are computed, not assumed.        *)
(* Directory names are valid UTF-8, for which to_string_lossy returns the  *)
(* name itself.  External tools (curl, tar, sh) are the environment: each  *)
(* action draws their outcome.                                             *)
(***************************************************************************)
EXTENDS Naturals, Sequences, FiniteSets, TLC

VARIABLES
    layout,              \* kind of the store root and of its three fixed children
    installed_dir,       \* entries of <root>/installed: name -> "dir" | "file"
    downloads_dir,       \* files of <root>/downloads: file name -> digest status
    root_dirs,           \* other directories directly under <root>: name -> contents
    cwd,                 \* the process's current working directory
    pc,                  \* where run() stands: "start", "ready", "fetched", "built"
    cur,                 \* the package the install pipeline is working on
    installed_packages,  \* PackageManager.installed_packages: key -> Package
    last,                \* the last call made and what it returned
    manifest,            \* the TOML document handed to parse_package_description
    parsed,              \* what parse_package_description returned for it
    args                 \* the command line of the last run(): std::env::args()

vars == <<layout, installed_dir, downloads_dir, root_dirs, cwd, pc, cur,
          installed_packages, last, manifest, parsed, args>>

----------------------------------------------------------------------------
(* Bounds *)

\* longest directory name found under installed/ that no install created
MaxNameLen == 3
\* most entries found under installed/ when the index is rebuilt
MaxEntries == 2
\* most entries found under installed/ when the layout is created
MaxStoreEntries == 1
\* most elements of the arguments array of a manifest's [build] section
MaxArguments == 2
\* most entries of a manifest's [dependencies] table
MaxDependencies == 1
\* most build steps of a package whose steps are rewritten
MaxSteps == 2
\* most words on the command line after the command
MaxOperands == 3

----------------------------------------------------------------------------
(* Strings *)

Sep == "-"
Chars == {"a", Sep}

RECURSIVE StrsUpTo(_)
StrsUpTo(n) ==
    IF n = 0 THEN {<<>>}
    ELSE LET S == StrsUpTo(n - 1)
         IN  S \cup {Append(s, c) : s \in {t \in S : Len(t) = n - 1}, c \in Chars}

DirNames == StrsUpTo(MaxNameLen) \ {<<>>}

\* format!("{}-{}", name, version)
IdentityKey(name, version) == name \o <<Sep>> \o version

\* format!("{}-{}-build", package.name, package.version)
BuildDirName(p) == IdentityKey(p.name, p.version) \o <<Sep>> \o <<"build">>

HasSep(s) == \E i \in 1..Len(s) : s[i] = Sep

\* str::rsplit_once('-'): the parts before and after the last separator
rsplit_once(s) ==
    LET i == CHOOSE k \in 1..Len(s) :
                 s[k] = Sep /\ \A j \in (k + 1)..Len(s) : s[j] # Sep
    IN  <<SubSeq(s, 1, i - 1), SubSeq(s, i + 1, Len(s))>>

\* Path::file_name of the url: its last segment
file_name(url) == url[Len(url)]

StartsWith(s, prefix) ==
    Len(s) >= Len(prefix) /\ SubSeq(s, 1, Len(prefix)) = prefix

----------------------------------------------------------------------------
(* Packages *)

Configure == <<"./configure">>
Make == <<"make">>
MakeInstall == <<"make install">>

\* the recipe run() installs, and a second recipe without a configure step
Packages ==
    { [name |-> <<"a">>, version |-> <<"a">>, dependencies |-> <<>>,
       build_steps |-> <<Configure, Make, MakeInstall>>,
       url |-> <<"https:", "host", "a.tar.gz">>],
      [name |-> <<"a">>, version |-> <<"a", Sep, "a">>, dependencies |-> <<>>,
       build_steps |-> <<Make, MakeInstall>>,
       url |-> <<"https:", "host", "b.tar.gz">>] }

NoPkg == [name |-> <<>>, version |-> <<>>, dependencies |-> <<>>,
          build_steps |-> <<>>, url |-> <<>>]

\* the record the startup rebuild makes from a directory name
SyncedPackage(name, version) ==
    [name |-> name, version |-> version, dependencies |-> <<>>,
     build_steps |-> <<>>, url |-> <<>>]

EmptyMap == [k \in {} |-> NoPkg]

----------------------------------------------------------------------------
(* The store layout *)

DirsWithoutInstalled == <<"root", "downloads", "builds">>

\* create_directory_structure: the four directories, root first
dirs == <<"root", "downloads", "builds", "installed">>

LayoutNames == {"root", "downloads", "builds", "installed"}

\* Path::exists
exists(lay, d) == lay[d] # "absent"

\* fs::create_dir_all on a directory of the layout: creates the missing
\* parents too, succeeds on an existing directory, fails on a regular file
\* in the way or when the environment refuses (io = FALSE)
create_dir_all(lay, d, io) ==
    IF lay[d] = "dir" THEN [ok |-> TRUE, lay |-> lay]
    ELSE IF lay.root = "file" \/ lay[d] = "file" \/ ~io
         THEN [ok |-> FALSE, lay |-> lay]
         ELSE [ok |-> TRUE, lay |-> [lay EXCEPT !.root = "dir", ![d] = "dir"]]

RECURSIVE create_from(_, _, _)
create_from(lay, io, i) ==
    IF i > Len(dirs) THEN [ok |-> TRUE, lay |-> lay]
    ELSE LET d == dirs[i]
         IN  IF exists(lay, d) THEN create_from(lay, io, i + 1)
             ELSE LET r == create_dir_all(lay, d, io[d])
                  IN  IF r.ok THEN create_from(r.lay, io, i + 1)
                      ELSE [ok |-> FALSE, lay |-> lay]

create_directory_structure(lay, io) == create_from(lay, io, 1)

----------------------------------------------------------------------------
(* The index *)

\* HashMap::insert
Insert(idx, k, v) == [x \in DOMAIN idx \cup {k} |-> IF x = k THEN v ELSE idx[x]]

\* HashMap::remove
Without(idx, k) == [x \in DOMAIN idx \ {k} |-> idx[x]]

\* the (name, version) the rebuild records for a directory name
SplitFirst(s) ==
    LET i == CHOOSE k \in 1..Len(s) :
                 s[k] = Sep /\ \A j \in 1..(k - 1) : s[j] # Sep
    IN  <<SubSeq(s, 1, i - 1), SubSeq(s, i + 1, Len(s))>>

\* the split at the last separator with the separator left on the name
SplitKeepingSep(s) ==
    LET i == CHOOSE k \in 1..Len(s) :
                 s[k] = Sep /\ \A j \in (k + 1)..Len(s) : s[j] # Sep
    IN  <<SubSeq(s, 1, i), SubSeq(s, i + 1, Len(s))>>

name_and_version(name_version) == rsplit_once(name_version)

\* sync_installed_packages: clear the mapping, then one record per
\* subdirectory of installed/ whose name holds a separator.  read_dir fails
\* when installed/ is no directory or the environment refuses (io = FALSE);
\* the mapping is already cleared by then.
sync_installed_packages(lay, inst, io) ==
    IF lay.installed # "dir" \/ ~io
    THEN [ok |-> FALSE, idx |-> EmptyMap]
    ELSE [ok |-> TRUE,
          idx |-> [k \in {n \in DOMAIN inst : inst[n] = "dir" /\ HasSep(n)} |->
                     SyncedPackage(name_and_version(k)[1], name_and_version(k)[2])]]

\* list_packages: one line "{key} ({version})" per entry
list_packages(idx) == {<<k, idx[k].version>> : k \in DOMAIN idx}

NotFound == [name |-> <<"Package not found">>, version |-> <<>>]

\* package_info: the record stored under the key `name`, if any
package_info(idx, name) ==
    IF name \in DOMAIN idx
    THEN [name |-> idx[name].name, version |-> idx[name].version]
    ELSE NotFound

----------------------------------------------------------------------------
(* The working directory *)

Orig == [at |-> "orig", key |-> <<>>]
StoreCwd == [at |-> "store", key |-> <<>>]
DownloadsCwd == [at |-> "downloads", key |-> <<>>]
BuildCwd(b) == [at |-> "build", key |-> b]
SourceCwd(b) == [at |-> "source", key |-> b]

----------------------------------------------------------------------------
(* fetch_package *)

FetchIo == {"none", "mkdir", "chdir", "curl_launch"}

FetchEnv == [io : FetchIo, exit : {"ok", "nonzero"},
             digest : {"match", "mismatch"}, partial : BOOLEAN]

Put(files, f, d) == [x \in DOMAIN files \cup {f} |-> IF x = f THEN d ELSE files[x]]

fetch_package(lay, dl, wd, p, env) ==
    LET m == create_dir_all(lay, "downloads", env.io # "mkdir")
        f == file_name(p.url)
    IN  IF ~m.ok
        THEN [result |-> "Err:io", text |-> <<>>, layout |-> lay,
              downloads |-> dl, cwd |-> wd]
        ELSE IF env.io = "chdir"
        THEN [result |-> "Err:io", text |-> <<>>, layout |-> m.lay,
              downloads |-> dl, cwd |-> wd]
        ELSE IF env.io = "curl_launch"
        THEN [result |-> "Err:io", text |-> <<>>, layout |-> m.lay,
              downloads |-> dl, cwd |-> DownloadsCwd]
        ELSE IF env.exit = "nonzero"
        THEN [result |-> "Err:download", text |-> p.name, layout |-> m.lay,
              downloads |-> IF env.partial THEN Put(dl, f, "mismatch") ELSE dl,
              cwd |-> DownloadsCwd]
        ELSE [result |-> "Ok", text |-> <<>>, layout |-> m.lay,
              downloads |-> Put(dl, f, env.digest), cwd |-> DownloadsCwd]

----------------------------------------------------------------------------
(* build_package *)

BuildIo == {"none", "mkdir", "chdir_build", "tar_launch", "chdir_source",
            "step_launch", "chdir_store"}

\* what the environment does during one build_package(p): the call that
\* fails to launch or to change directory (if any), tar's exit status and
\* whether it left the expected source directory, the first build step that
\* exits non-zero (0: none), and whether a failing step wrote part of its output
BuildEnv(p) == [io : BuildIo, tar : {"ok", "nonzero"}, unpack : BOOLEAN,
                failAt : 0..Len(p.build_steps), partial : BOOLEAN]

\* store_path.join("installed").join(format!("{}-{}", name, version))
install_path(p) == <<"store/installed/">> \o IdentityKey(p.name, p.version)

\* the closure with the prefix appended to every step
modify_every_step(step, p) == step \o <<" --prefix=">> \o install_path(p)

\* the closure of lines 270-276: a configure step gets the install prefix
modify_step(step, p) ==
    IF StartsWith(step, Configure)
    THEN step \o <<" --prefix=">> \o install_path(p)
    ELSE step

modified_build_steps(p) ==
    [i \in 1..Len(p.build_steps) |-> modify_step(p.build_steps[i], p)]

EmptyTree == [src |-> FALSE, made |-> {}]

\* the steps of one `for step in &modified_build_steps` run: all of them, or
\* those up to and including the first that fails
steps_all(steps, failAt) == steps

steps_run(steps, failAt) ==
    IF failAt = 0 THEN steps ELSE SubSeq(steps, 1, failAt)

\* What the shell steps leave on disk.  A step that exits zero leaves its
\* output in the source tree.  `make install` writes the prefix the tree was
\* configured with: the package's install directory when a configure step
\* carrying its --prefix has run there, and nothing inside the store
\* otherwise.  A failing `make install` may have written part of it.
Configured(made, p) ==
    \E i \in 1..Len(p.build_steps) :
        /\ StartsWith(p.build_steps[i], Configure)
        /\ modified_build_steps(p)[i] \in made

build_package(lay, rd, dl, inst, wd, p, env) ==
    LET b == BuildDirName(p)
        key == IdentityKey(p.name, p.version)
        steps == modified_build_steps(p)
        n == Len(steps)
        failAt == env.failAt
        mkdir_ok == lay.root # "file" /\ env.io # "mkdir"
        lay1 == [lay EXCEPT !.root = "dir"]
        rd1 == IF b \in DOMAIN rd THEN rd
               ELSE [x \in DOMAIN rd \cup {b} |-> IF x = b THEN EmptyTree ELSE rd[x]]
        have == file_name(p.url) \in DOMAIN dl
        tar == IF have THEN env.tar ELSE "nonzero"
        src == rd1[b].src \/ (have /\ env.unpack)
        rd2 == [rd1 EXCEPT ![b].src = src]
        ran == steps_run(steps, failAt)
        okSteps == IF failAt = 0 THEN 1..n ELSE 1..(failAt - 1)
        made == rd2[b].made \cup {steps[i] : i \in okSteps}
        rd3 == [rd2 EXCEPT ![b].made = made]
        writes == \E i \in 1..Len(ran) :
                     /\ ran[i] = MakeInstall
                     /\ Configured(made, p)
                     /\ (i \in okSteps \/ env.partial)
        inst3 == IF writes /\ lay1.installed = "dir" /\ key \notin DOMAIN inst
                 THEN Put(inst, key, "dir") ELSE inst
        Out(res, txt, l, r, i, c, x, t) ==
            [result |-> res, text |-> txt, layout |-> l, root_dirs |-> r,
             installed_dir |-> i, cwd |-> c, ran |-> x, tar |-> t]
    IN  IF ~mkdir_ok THEN Out("Err:io", <<>>, lay, rd, inst, wd, <<>>, "none")
        ELSE IF env.io = "chdir_build"
        THEN Out("Err:io", <<>>, lay1, rd1, inst, wd, <<>>, "none")
        ELSE IF env.io = "tar_launch"
        THEN Out("Err:io", <<>>, lay1, rd1, inst, BuildCwd(b), <<>>, "none")
        ELSE IF ~src \/ env.io = "chdir_source"
        THEN Out("Err:io", <<>>, lay1, rd2, inst, BuildCwd(b), <<>>, tar)
        ELSE IF failAt # 0 /\ env.io = "step_launch"
        THEN Out("Err:io", <<>>, lay1, rd3, inst3, SourceCwd(b), ran, tar)
        ELSE IF failAt # 0
        THEN Out("Err:build_step", steps[failAt], lay1, rd3, inst3,
                 SourceCwd(b), ran, tar)
        ELSE IF env.io = "chdir_store"
        THEN Out("Err:io", <<>>, lay1, rd3, inst3, SourceCwd(b), ran, tar)
        ELSE Out("Ok", <<>>, lay1, rd3, inst3, StoreCwd, ran, tar)

----------------------------------------------------------------------------
(* install_package and remove_package *)

InstallKeyIdentity(p) == IdentityKey(p.name, p.version)

\* the key install_package inserts under: package.name.clone()
InstallKey(p) == p.name

install_package(idx, p) == Insert(idx, InstallKey(p), p)

\* fs::remove_dir_all on installed/<key>: fails when there is no such
\* directory or the environment refuses (io = FALSE), and then leaves it
remove_dir_all(inst, key, io) ==
    IF key \in DOMAIN inst /\ inst[key] = "dir" /\ io
    THEN [ok |-> TRUE, inst |-> [x \in DOMAIN inst \ {key} |-> inst[x]]]
    ELSE [ok |-> FALSE, inst |-> inst]

\* remove_package with the directory removed before the index is looked at
remove_package_unchecked(idx, inst, name, version, io) ==
    LET key == IdentityKey(name, version)
        r == remove_dir_all(inst, key, io)
    IN  IF key \in DOMAIN idx
        THEN [result |-> IF r.ok THEN "Ok" ELSE "Err:io", text |-> <<>>,
              idx |-> Without(idx, key), installed_dir |-> r.inst]
        ELSE [result |-> "Err:not_found", text |-> name \o <<" ">> \o version,
              idx |-> idx, installed_dir |-> r.inst]

remove_package(idx, inst, name, version, io) ==
    LET key == IdentityKey(name, version)
    IN  IF key \in DOMAIN idx
        THEN LET r == remove_dir_all(inst, key, io)
             IN  [result |-> IF r.ok THEN "Ok" ELSE "Err:io", text |-> <<>>,
                  idx |-> Without(idx, key), installed_dir |-> r.inst]
        ELSE [result |-> "Err:not_found", text |-> name \o <<" ">> \o version,
              idx |-> idx, installed_dir |-> inst]

----------------------------------------------------------------------------
(* The manifest parser *)

\* a toml::Value under a key, as far as the parser tells values apart:
\* no value, a string (with its content) or a value that is not a string
Absent == [t |-> "absent", s |-> ""]
NotStr == [t |-> "other", s |-> ""]
Str(c) == [t |-> "str", s |-> c]

Scalars == {Absent, NotStr, Str("x")}
Elements == {NotStr, Str("x")}

RECURSIVE ArraysUpTo(_)
ArraysUpTo(n) ==
    IF n = 0 THEN {<<>>}
    ELSE LET A == ArraysUpTo(n - 1)
         IN  A \cup {Append(a, e) : a \in A, e \in Elements}

\* the value under "arguments": none, not an array, or an array
ArgumentValues ==
    {[t |-> "absent", elems |-> <<>>], [t |-> "other", elems |-> <<>>]}
        \cup {[t |-> "arr", elems |-> a] : a \in ArraysUpTo(MaxArguments)}

DependencyNames == {"dep" \o ToString(i) : i \in 1..MaxDependencies}

NoDependencies == [d \in {} |-> ""]

\* the value under a section name: none, not a table, or a table
PackageSections ==
    {[kind |-> k, name |-> Absent, version |-> Absent] : k \in {"absent", "other"}}
        \cup [kind : {"table"}, name : Scalars, version : Scalars]

SourceSections ==
    {[kind |-> k, url |-> Absent, sha256 |-> Absent] : k \in {"absent", "other"}}
        \cup [kind : {"table"}, url : Scalars, sha256 : Scalars]

BuildSections ==
    {[kind |-> k, system |-> Absent, arguments |-> [t |-> "absent", elems |-> <<>>]] :
        k \in {"absent", "other"}}
        \cup [kind : {"table"}, system : Scalars, arguments : ArgumentValues]

DependencySections ==
    {[kind |-> k, entries |-> [d \in {} |-> NotStr]] : k \in {"absent", "other"}}
        \cup {[kind |-> "table", entries |-> e] :
                 e \in UNION {[D -> Elements] : D \in SUBSET DependencyNames}}

\* a text that is not TOML
NotToml ==
    [toml |-> FALSE,
     package |-> [kind |-> "absent", name |-> Absent, version |-> Absent],
     source |-> [kind |-> "absent", url |-> Absent, sha256 |-> Absent],
     build |-> [kind |-> "absent", system |-> Absent,
                arguments |-> [t |-> "absent", elems |-> <<>>]],
     dependencies |-> [kind |-> "absent", entries |-> [d \in {} |-> NotStr]]]

Manifests ==
    [toml : {TRUE}, package : PackageSections, source : SourceSections,
     build : BuildSections, dependencies : DependencySections] \cup {NotToml}

\* Result<_, Box<dyn Error>>: the error text is a sequence of words
Ok(v) == [ok |-> TRUE, err |-> <<>>, val |-> v]
Err(text, v) == [ok |-> FALSE, err |-> text, val |-> v]

\* toml.get(section).ok_or("Missing [..] section")?.as_table().ok_or("Invalid [..] section")?
as_table(sec, tag) ==
    IF sec.kind = "absent" THEN Err(<<"Missing", tag, "section">>, sec)
    ELSE IF sec.kind # "table" THEN Err(<<"Invalid", tag, "section">>, sec)
    ELSE Ok(sec)

\* table.get(field).ok_or("Missing .. in [..]")?.as_str().ok_or("Invalid .. in [..]")?.to_string()
as_str(v, field, tag) ==
    IF v.t = "absent" THEN Err(<<"Missing", field, "in", tag>>, "")
    ELSE IF v.t # "str" THEN Err(<<"Invalid", field, "in", tag>>, "")
    ELSE Ok(v.s)

NoNewPackage == [name |-> "", version |-> ""]

parse_package(toml) ==
    LET package == as_table(toml.package, "[package]")
        name == as_str(toml.package.name, "name", "[package]")
        version == as_str(toml.package.version, "version", "[package]")
    IN  IF ~package.ok THEN Err(package.err, NoNewPackage)
        ELSE IF ~name.ok THEN Err(name.err, NoNewPackage)
        ELSE IF ~version.ok THEN Err(version.err, NoNewPackage)
        ELSE Ok([name |-> name.val, version |-> version.val])

NoSource == [url |-> "", sha256 |-> ""]

parse_source(toml) ==
    LET source == as_table(toml.source, "[source]")
        url == as_str(toml.source.url, "url", "[source]")
        sha256 == as_str(toml.source.sha256, "sha256", "[source]")
    IN  IF ~source.ok THEN Err(source.err, NoSource)
        ELSE IF ~url.ok THEN Err(url.err, NoSource)
        ELSE IF ~sha256.ok THEN Err(sha256.err, NoSource)
        ELSE Ok([url |-> url.val, sha256 |-> sha256.val])

\* .iter().map(|v| v.as_str().ok_or("Invalid argument")).collect::<Result<Vec<_>, _>>()?
collect_arguments(elems) ==
    IF \E i \in 1..Len(elems) : elems[i].t # "str"
    THEN Err(<<"Invalid", "argument">>, <<>>)
    ELSE Ok([i \in 1..Len(elems) |-> elems[i].s])

NoBuild == [system |-> "", arguments |-> <<>>]

parse_build(toml) ==
    LET build == as_table(toml.build, "[build]")
        system == as_str(toml.build.system, "system", "[build]")
        arguments ==
            IF toml.build.arguments.t = "absent"
            THEN Err(<<"Missing", "arguments", "in", "[build]">>, <<>>)
            ELSE IF toml.build.arguments.t # "arr"
            THEN Err(<<"Invalid", "arguments", "in", "[build]">>, <<>>)
            ELSE collect_arguments(toml.build.arguments.elems)
    IN  IF ~build.ok THEN Err(build.err, NoBuild)
        ELSE IF ~system.ok THEN Err(system.err, NoBuild)
        ELSE IF ~arguments.ok THEN Err(arguments.err, NoBuild)
        ELSE Ok([system |-> system.val, arguments |-> arguments.val])

\* toml.get("dependencies").map(|v| v.as_table()).unwrap_or(None).unwrap_or(&binding)
dependencies_table(sec) ==
    IF sec.kind = "table" THEN sec.entries ELSE [d \in {} |-> NotStr]

parse_dependencies(toml) ==
    LET dependencies == dependencies_table(toml.dependencies)
    IN  IF \E k \in DOMAIN dependencies : dependencies[k].t # "str"
        THEN Err(<<"Invalid", "dependency", "version">>, NoDependencies)
        ELSE Ok([k \in DOMAIN dependencies |-> dependencies[k].s])

NoDescription ==
    [package |-> NoNewPackage, source |-> NoSource, build |-> NoBuild,
     dependencies |-> NoDependencies]

\* parse_source(&toml)? evaluated before parse_package(&toml)?
parse_source_first(m) ==
    LET package == parse_package(m)
        source == parse_source(m)
        build == parse_build(m)
        dependencies == parse_dependencies(m)
    IN  IF ~m.toml THEN Err(<<"TOML", "parse", "error">>, NoDescription)
        ELSE IF ~source.ok THEN Err(source.err, NoDescription)
        ELSE IF ~package.ok THEN Err(package.err, NoDescription)
        ELSE IF ~build.ok THEN Err(build.err, NoDescription)
        ELSE IF ~dependencies.ok THEN Err(dependencies.err, NoDescription)
        ELSE Ok([package |-> package.val, source |-> source.val,
                 build |-> build.val, dependencies |-> dependencies.val])

parse_package_description(m) ==
    LET package == parse_package(m)
        source == parse_source(m)
        build == parse_build(m)
        dependencies == parse_dependencies(m)
    IN  IF ~m.toml THEN Err(<<"TOML", "parse", "error">>, NoDescription)
        ELSE IF ~package.ok THEN Err(package.err, NoDescription)
        ELSE IF ~source.ok THEN Err(source.err, NoDescription)
        ELSE IF ~build.ok THEN Err(build.err, NoDescription)
        ELSE IF ~dependencies.ok THEN Err(dependencies.err, NoDescription)
        ELSE Ok([package |-> package.val, source |-> source.val,
                 build |-> build.val, dependencies |-> dependencies.val])

\* no call of parse_package_description made yet
NotParsed == [ok |-> FALSE, err |-> <<"not parsed">>, val |-> NoDescription]

----------------------------------------------------------------------------
(* The command line *)

\* the package run() installs
Sqlite == CHOOSE p \in Packages : p.build_steps = <<Configure, Make, MakeInstall>>

\* args[0]
Program == <<"simplex">>

NoArgs == <<>>

Commands == {<<"install">>, <<"remove">>, <<"list">>, <<"info">>, <<"update">>}

\* words that follow the command
Operands == {<<"a">>, <<"a", Sep, "a">>}

RECURSIVE OperandsUpTo(_)
OperandsUpTo(n) ==
    IF n = 0 THEN {<<>>}
    ELSE LET L == OperandsUpTo(n - 1)
         IN  L \cup {Append(l, w) : l \in L, w \in Operands}

\* std::env::args().collect()
ArgLists ==
    {<<Program>>}
        \cup {<<Program, c>> \o rest : c \in Commands, rest \in OperandsUpTo(MaxOperands)}

\* Vec indexing args[i], i counted from 0: past the end it panics
InBounds(a, i) == i + 1 <= Len(a)
At(a, i) == a[i + 1]

Dispatched(call, name, version) == [call |-> call, name |-> name, version |-> version]

\* run(), lines 374-420: the call the command line leads to, an early
\* return with a SimplexError, or a panic on an index past the end
dispatch(a) ==
    IF Len(a) < 2 THEN Dispatched("Err:MissingCommand", <<>>, <<>>)
    ELSE IF At(a, 1) = <<"install">>
    THEN IF Len(a) < 3 THEN Dispatched("Err:MissingInstallPackage", <<>>, <<>>)
         ELSE Dispatched("install", Sqlite.name, Sqlite.version)
    ELSE IF At(a, 1) = <<"remove">>
    THEN IF Len(a) < 3 THEN Dispatched("Err:MissingRemovePackageName", <<>>, <<>>)
         ELSE IF Len(a) < 4
         THEN Dispatched("Err:MissingRemovePackageVersion", <<>>, <<>>)
         ELSE IF ~InBounds(a, 3) \/ ~InBounds(a, 4)
         THEN Dispatched("panic", <<>>, <<>>)
         ELSE Dispatched("remove_package", At(a, 3), At(a, 4))
    ELSE IF At(a, 1) = <<"list">> THEN Dispatched("list_packages", <<>>, <<>>)
    ELSE IF At(a, 1) = <<"info">>
    THEN IF Len(a) < 3 THEN Dispatched("Err:MissingInfoPackage", <<>>, <<>>)
         ELSE Dispatched("package_info", At(a, 2), <<>>)
    ELSE Dispatched("Err:IllegalCommand", <<>>, <<>>)

----------------------------------------------------------------------------
(* State *)

Kinds == {"absent", "dir", "file"}

Layouts ==
    {l \in [LayoutNames -> Kinds] :
        l.root # "dir" => \A d \in LayoutNames \ {"root"} : l[d] = "absent"}

RECURSIVE EntriesUpTo(_)
EntriesUpTo(n) ==
    IF n = 0 THEN {[x \in {} |-> "dir"]}
    ELSE LET E == EntriesUpTo(n - 1)
         IN  E \cup {Put(f, d, k) : f \in E, d \in DirNames, k \in {"dir", "file"}}

\* the record `last` keeps of a call: what was called, on what, what it
\* returned (with the text the error carries), the commands it handed to
\* the shell and tar's exit status
Call(op, name, version, result, text, ran, tar) ==
    [op |-> op, name |-> name, version |-> version, result |-> result,
     text |-> text, ran |-> ran, tar |-> tar]

NoCall == Call("none", <<>>, <<>>, "Ok", <<>>, <<>>, "none")

NoEntries == [x \in {} |-> "dir"]

\* before the first start: a store that holds no package yet, with any part
\* of its layout already there
Init ==
    /\ layout \in {l \in Layouts : \A d \in LayoutNames : l[d] # "file"}
    /\ installed_dir = NoEntries
    /\ downloads_dir = [x \in {} |-> "match"]
    /\ root_dirs = [x \in {} |-> EmptyTree]
    /\ cwd = Orig
    /\ pc = "start"
    /\ cur = NoPkg
    /\ installed_packages = EmptyMap
    /\ last = NoCall
    /\ manifest = NotToml
    /\ parsed = NotParsed
    /\ args = NoArgs

----------------------------------------------------------------------------
(* Operations *)

\* PackageManager::new("./store"): resolve the path, create the layout,
\* rebuild the index
New(cwdOk, io, readOk) ==
    /\ pc = "start"
    /\ LET c == create_directory_structure(layout, io)
           s == sync_installed_packages(c.lay, installed_dir, readOk)
           ok == cwdOk /\ c.ok /\ s.ok
       IN  /\ layout' = IF cwdOk THEN c.lay ELSE layout
           /\ pc' = IF ok THEN "ready" ELSE "start"
           /\ installed_packages' = IF ok THEN s.idx ELSE EmptyMap
           /\ last' = Call("new", <<>>, <<>>, IF ok THEN "Ok" ELSE "Err:io", <<>>, <<>>, "none")
    /\ UNCHANGED <<manifest, parsed, args>>
    /\ UNCHANGED <<installed_dir, downloads_dir, root_dirs, cwd, cur>>

ContinuesAlways(result) == TRUE

\* the `?` after each stage of run()'s install: the next stage runs only when
\* this one returned Ok
Continues(result) == result = "Ok"

\* run(), "install": pm.fetch_package(&sqlite)?
Fetch(p, env) ==
    /\ pc = "ready"
    /\ LET r == fetch_package(layout, downloads_dir, cwd, p, env)
       IN  /\ layout' = r.layout
           /\ downloads_dir' = r.downloads
           /\ cwd' = r.cwd
           /\ pc' = IF Continues(r.result) THEN "fetched" ELSE "ready"
           /\ cur' = IF Continues(r.result) THEN p ELSE NoPkg
           /\ last' = Call("fetch_package", p.name, p.version,
                           r.result, r.text, <<>>, "none")
    /\ UNCHANGED <<manifest, parsed, args>>
    /\ UNCHANGED <<installed_dir, root_dirs, installed_packages>>

\* run(), "install": pm.build_package(&sqlite)?
Build(env) ==
    /\ pc = "fetched"
    /\ LET r == build_package(layout, root_dirs, downloads_dir, installed_dir,
                              cwd, cur, env)
       IN  /\ layout' = r.layout
           /\ root_dirs' = r.root_dirs
           /\ installed_dir' = r.installed_dir
           /\ cwd' = r.cwd
           /\ pc' = IF Continues(r.result) THEN "built" ELSE "ready"
           /\ cur' = IF Continues(r.result) THEN cur ELSE NoPkg
           /\ last' = Call("build_package", cur.name, cur.version,
                           r.result, r.text, r.ran, r.tar)
    /\ UNCHANGED <<manifest, parsed, args>>
    /\ UNCHANGED <<downloads_dir, installed_packages>>

\* run(), "install": pm.install_package(&sqlite)?
InstallPackage ==
    /\ pc = "built"
    /\ installed_packages' = install_package(installed_packages, cur)
    /\ pc' = "ready"
    /\ cur' = NoPkg
    /\ last' = Call("install_package", cur.name, cur.version,
                    "Ok", <<>>, <<>>, "none")
    /\ UNCHANGED <<manifest, parsed, args>>
    /\ UNCHANGED <<layout, installed_dir, downloads_dir, root_dirs, cwd>>

\* the (name, version) pairs remove_package is called with
RemoveArgs ==
    {<<p.name, p.version>> : p \in Packages}
        \cup {<<installed_packages[k].name, installed_packages[k].version>> :
                 k \in DOMAIN installed_packages}

\* run(), "remove": pm.remove_package(name, version)?
Remove(name, version, io) ==
    /\ pc = "ready"
    /\ LET r == remove_package(installed_packages, installed_dir, name, version, io)
       IN  /\ installed_packages' = r.idx
           /\ installed_dir' = r.installed_dir
           /\ last' = Call("remove_package", name, version,
                           r.result, r.text, <<>>, "none")
    /\ UNCHANGED <<manifest, parsed, args>>
    /\ UNCHANGED <<layout, downloads_dir, root_dirs, cwd, pc, cur>>

\* main(): the process ends; the next one starts in the original directory
\* with no PackageManager
Exit ==
    /\ pc = "ready"
    /\ pc' = "start"
    /\ cwd' = Orig
    /\ installed_packages' = EmptyMap
    /\ last' = NoCall
    /\ UNCHANGED <<manifest, parsed, args>>
    /\ UNCHANGED <<layout, installed_dir, downloads_dir, root_dirs, cur>>

Next ==
    \/ \E cwdOk \in BOOLEAN, io \in [LayoutNames -> BOOLEAN], readOk \in BOOLEAN :
          New(cwdOk, io, readOk)
    \/ \E p \in Packages, env \in FetchEnv : Fetch(p, env)
    \/ \E env \in BuildEnv(cur) : Build(env)
    \/ InstallPackage
    \/ \E a \in RemoveArgs, io \in BOOLEAN : Remove(a[1], a[2], io)
    \/ Exit

Spec == Init /\ [][Next]_vars

----------------------------------------------------------------------------
(* The startup methods on their own *)

\* a store in any state: each part of the layout absent, a directory or a
\* regular file, and installed/ holding directories and files of any name
InitStore ==
    /\ layout \in Layouts
    /\ installed_dir \in EntriesUpTo(MaxStoreEntries)
    /\ layout.installed # "dir" => installed_dir = NoEntries
    /\ downloads_dir = [x \in {} |-> "match"]
    /\ root_dirs = [x \in {} |-> EmptyTree]
    /\ cwd = Orig
    /\ pc = "start"
    /\ cur = NoPkg
    /\ installed_packages = EmptyMap
    /\ last = NoCall
    /\ manifest = NotToml
    /\ parsed = NotParsed
    /\ args = NoArgs

\* pm.create_directory_structure()
CreateDirectoryStructure(io) ==
    /\ LET c == create_directory_structure(layout, io)
       IN  /\ layout' = c.lay
           /\ last' = Call("create_directory_structure", <<>>, <<>>,
                           IF c.ok THEN "Ok" ELSE "Err:io", <<>>, <<>>, "none")
    /\ UNCHANGED <<manifest, parsed, args>>
    /\ UNCHANGED <<installed_dir, downloads_dir, root_dirs, cwd, pc, cur,
                   installed_packages>>

NextLayout == \E io \in [LayoutNames -> BOOLEAN] : CreateDirectoryStructure(io)

SpecLayout == InitStore /\ [][NextLayout]_vars

\* mappings a manager may hold when the rebuild is entered
PriorMappings ==
    {EmptyMap}
        \cup {Insert(EmptyMap, InstallKey(p), p) : p \in Packages}

InitSync ==
    /\ layout \in {l \in Layouts : l.root = "dir" /\ l.downloads = "dir"
                                     /\ l.builds = "dir"}
    /\ installed_dir \in EntriesUpTo(MaxEntries)
    /\ layout.installed # "dir" => installed_dir = NoEntries
    /\ downloads_dir = [x \in {} |-> "match"]
    /\ root_dirs = [x \in {} |-> EmptyTree]
    /\ cwd = Orig
    /\ pc = "ready"
    /\ cur = NoPkg
    /\ installed_packages \in PriorMappings
    /\ last = NoCall
    /\ manifest = NotToml
    /\ parsed = NotParsed
    /\ args = NoArgs

\* pm.sync_installed_packages(); `text` records whether read_dir was refused
Sync(readOk) ==
    /\ LET s == sync_installed_packages(layout, installed_dir, readOk)
       IN  /\ installed_packages' = s.idx
           /\ last' = Call("sync_installed_packages", <<>>, <<>>,
                           IF s.ok THEN "Ok" ELSE "Err:io",
                           IF readOk THEN <<>> ELSE <<"read_dir refused">>,
                           <<>>, "none")
    /\ UNCHANGED <<manifest, parsed, args>>
    /\ UNCHANGED <<layout, installed_dir, downloads_dir, root_dirs, cwd, pc, cur>>

NextSync == \E readOk \in BOOLEAN : Sync(readOk)

SpecSync == InitSync /\ [][NextSync]_vars

----------------------------------------------------------------------------
(* The manifest parser on its own *)

\* any manifest, not parsed yet; no PackageManager is involved
InitParse ==
    /\ layout = [d \in LayoutNames |-> "absent"]
    /\ installed_dir = NoEntries
    /\ downloads_dir = [x \in {} |-> "match"]
    /\ root_dirs = [x \in {} |-> EmptyTree]
    /\ cwd = Orig
    /\ pc = "start"
    /\ cur = NoPkg
    /\ installed_packages = EmptyMap
    /\ last = NoCall
    /\ manifest \in Manifests
    /\ parsed = NotParsed
    /\ args = NoArgs

\* parse_package_description(toml_str)
ParsePackageDescription ==
    /\ parsed = NotParsed
    /\ LET r == parse_package_description(manifest)
       IN  /\ parsed' = r
           /\ last' = Call("parse_package_description", <<>>, <<>>,
                           IF r.ok THEN "Ok" ELSE "Err:parse", r.err, <<>>, "none")
    /\ UNCHANGED <<layout, installed_dir, downloads_dir, root_dirs, cwd, pc, cur,
                   installed_packages, manifest, args>>

NextParse == ParsePackageDescription

SpecParse == InitParse /\ [][NextParse]_vars

----------------------------------------------------------------------------
(* The rewriting of build steps on its own *)

\* step texts: configure steps with and without arguments, steps that only
\* mention ./configure, and others
StepTexts ==
    {Configure, Configure \o <<" --enable-x">>, <<"sh ">> \o Configure,
     Make, MakeInstall}

RECURSIVE StepListsUpTo(_)
StepListsUpTo(n) ==
    IF n = 0 THEN {<<>>}
    ELSE LET L == StepListsUpTo(n - 1)
         IN  L \cup {Append(l, t) : l \in L, t \in StepTexts}

\* the packages build_package may be handed
StepPackages ==
    [name : {<<"a">>, <<"a", Sep, "a">>}, version : {<<"a">>, <<"a", "a">>},
     dependencies : {<<>>}, build_steps : StepListsUpTo(MaxSteps),
     url : {<<"https:", "host", "a.tar.gz">>}]

InitSteps ==
    /\ layout = [d \in LayoutNames |-> "dir"]
    /\ installed_dir = NoEntries
    /\ downloads_dir = [x \in {} |-> "match"]
    /\ root_dirs = [x \in {} |-> EmptyTree]
    /\ cwd = StoreCwd
    /\ pc = "fetched"
    /\ cur \in StepPackages
    /\ installed_packages = EmptyMap
    /\ last = NoCall
    /\ manifest = NotToml
    /\ parsed = NotParsed
    /\ args = NoArgs

\* build_package, lines 264-277: install_path and modified_build_steps
ModifyBuildSteps ==
    /\ last = NoCall
    /\ last' = Call("modified_build_steps", cur.name, cur.version, "Ok", <<>>,
                    modified_build_steps(cur), "none")
    /\ UNCHANGED <<layout, installed_dir, downloads_dir, root_dirs, cwd, pc, cur,
                   installed_packages, manifest, parsed, args>>

NextSteps == ModifyBuildSteps

SpecSteps == InitSteps /\ [][NextSteps]_vars

----------------------------------------------------------------------------
(* run() as one step per process *)

\* what the environment does to PackageManager::new
NewEnvs == {"ok", "cwd", "mkdir", "read_dir"}

\* the external tools of an install may exit non-zero; the file system
\* calls of fetch_package and build_package succeed
CliFetchEnv ==
    {e \in FetchEnv : e.io = "none" /\ e.digest = "match" /\ ~e.partial}

CliBuildEnv ==
    {e \in BuildEnv(Sqlite) : e.io = "none" /\ e.tar = "ok" /\ e.unpack}

\* run() returns, or panics: the state the process leaves behind, with the
\* index and the working directory it ended with
Returns(lay, inst, dl, rd, wd, idx, d, result) ==
    /\ layout' = lay
    /\ installed_dir' = inst
    /\ downloads_dir' = dl
    /\ root_dirs' = rd
    /\ cwd' = wd
    /\ installed_packages' = idx
    /\ last' = Call("run", d.name, d.version, result, <<d.call>>, <<>>, "none")
    /\ UNCHANGED <<pc, cur, manifest, parsed>>

\* run() with the command line a
Run(a) ==
    /\ pc = "start"
    /\ args' = a
    /\ \E ne \in NewEnvs :
        LET c == create_directory_structure(layout, [x \in LayoutNames |-> ne # "mkdir"])
            s == sync_installed_packages(c.lay, installed_dir, ne # "read_dir")
            lay == IF ne # "cwd" THEN c.lay ELSE layout
            d == dispatch(a)
        IN  IF ~(ne # "cwd" /\ c.ok /\ s.ok)
            THEN Returns(lay, installed_dir, downloads_dir, root_dirs, Orig, EmptyMap,
                         Dispatched("new", <<>>, <<>>), "Err:io")
            ELSE IF d.call = "install"
            THEN \E fe \in CliFetchEnv :
                   LET f == fetch_package(lay, downloads_dir, Orig, Sqlite, fe)
                   IN  IF ~Continues(f.result)
                       THEN Returns(f.layout, installed_dir, f.downloads, root_dirs,
                                    f.cwd, s.idx, d, f.result)
                       ELSE \E be \in CliBuildEnv :
                              LET b == build_package(f.layout, root_dirs, f.downloads,
                                                     installed_dir, f.cwd, Sqlite, be)
                              IN  Returns(b.layout, b.installed_dir, f.downloads,
                                          b.root_dirs, b.cwd,
                                          IF Continues(b.result)
                                          THEN install_package(s.idx, Sqlite)
                                          ELSE s.idx,
                                          d, b.result)
            ELSE IF d.call = "remove_package"
            THEN \E io \in BOOLEAN :
                   LET r == remove_package(s.idx, installed_dir, d.name, d.version, io)
                   IN  Returns(lay, r.installed_dir, downloads_dir, root_dirs, Orig,
                               r.idx, d, r.result)
            ELSE Returns(lay, installed_dir, downloads_dir, root_dirs, Orig, s.idx, d,
                         IF d.call \in {"list_packages", "package_info"}
                         THEN "Ok" ELSE d.call)

NextCli == \E a \in ArgLists : Run(a)

SpecCli == Init /\ [][NextCli]_vars

----------------------------------------------------------------------------
(* Properties *)

\* the package of Packages a call was made for
PkgOf(name, version) ==
    CHOOSE p \in Packages : p.name = name /\ p.version = version

\* the identity (name, version) is in the index: under its identity key, or
\* as the name and version of a record
Indexed(idx, name, version) ==
    \/ IdentityKey(name, version) \in DOMAIN idx
    \/ \E k \in DOMAIN idx : idx[k].name = name /\ idx[k].version = version

\* C1: once install_package has returned Ok for a package (so fetch_package
\* and build_package returned Ok before it in this session), list_packages
\* prints its name with its version and package_info(name) finds a record
\* with that name and version.
C1_InstalledIsListed ==
    (last.op = "install_package" /\ last.result = "Ok") =>
        /\ <<last.name, last.version>> \in list_packages(installed_packages)
        /\ package_info(installed_packages, last.name)
               = [name |-> last.name, version |-> last.version]

C1_Witness ==
    /\ last.op = "install_package"
    /\ last.result = "Ok"
    /\ last.version = <<"a", Sep, "a">>
    /\ Cardinality(DOMAIN installed_packages) = 2

\* C2: remove_package(name, version) on a package that is in the index (put
\* there by install_package in this session or by the startup rebuild)
\* leaves no directory installed/<name>-<version> and no entry for the
\* package, and a second remove_package for it fails with 'Package not found'.
C2_RemoveRemoves ==
    [][ (last'.op = "remove_package" /\ pc = "ready"
            /\ Indexed(installed_packages, last'.name, last'.version))
        => /\ IdentityKey(last'.name, last'.version) \notin DOMAIN installed_dir'
           /\ ~Indexed(installed_packages', last'.name, last'.version)
           /\ remove_package(installed_packages', installed_dir', last'.name,
                             last'.version, TRUE).result = "Err:not_found" ]_vars

\* C3: while a PackageManager exists, every key of installed_packages is the
\* identity key "{name}-{version}" of the record stored under it.
C3_KeyedByIdentity ==
    pc # "start" =>
        \A k \in DOMAIN installed_packages :
            k = IdentityKey(installed_packages[k].name, installed_packages[k].version)

\* C4: when fetch_package or build_package returns Err, the install returns
\* that error: no later stage runs (install_package is entered only straight
\* after a build_package that returned Ok, build_package only straight after
\* a fetch_package that returned Ok) and the index is left as it was, so a
\* package that was not in it is not recorded.
C4_FailedStageAborts ==
    [][ /\ (last'.op \in {"fetch_package", "build_package"} /\ last'.result # "Ok")
            => /\ installed_packages' = installed_packages
               /\ pc' = "ready" /\ cur' = NoPkg
               /\ (~Indexed(installed_packages, last'.name, last'.version)
                      => ~Indexed(installed_packages', last'.name, last'.version))
        /\ pc' = "built" => (last'.op = "build_package" /\ last'.result = "Ok")
        /\ pc' = "fetched" => (last'.op = "fetch_package" /\ last'.result = "Ok")
        /\ last'.op = "install_package" => pc = "built"
        /\ last'.op = "build_package" => pc = "fetched" ]_vars

C4_Witness ==
    /\ last.op = "build_package"
    /\ last.result # "Ok"
    /\ IdentityKey(last.name, last.version) \in DOMAIN installed_dir
    /\ installed_packages = EmptyMap

\* C5: when remove_package returns the error of the failed directory
\* deletion, the package's entry is still in the index.
C5_EntryKeptWhenDeletionFails ==
    (last.op = "remove_package" /\ last.result = "Err:io") =>
        IdentityKey(last.name, last.version) \in DOMAIN installed_packages

\* C6: fetch_package and build_package return, with Ok or with Err, in the
\* working directory they were entered in.
C6_WorkingDirectoryRestored ==
    [][ last'.op \in {"fetch_package", "build_package"} => cwd' = cwd ]_vars

\* C7: build_package hands the steps to the shell in their listed order and
\* stops at the first that exits non-zero: the failing step is the last one
\* run, the error carries its command text, the index is left as it was (a
\* package that was not in it is not recorded), install_package does not
\* run, and the output of the steps before it is still in the source tree.
C7_FirstFailingStepAborts ==
    [][ last'.op = "build_package" =>
          LET p == PkgOf(last'.name, last'.version)
              ran == last'.ran
              k == Len(ran)
          IN  /\ k <= Len(p.build_steps)
              /\ \A i \in 1..k : StartsWith(ran[i], p.build_steps[i])
              /\ last'.result = "Ok" => k = Len(p.build_steps)
              /\ last'.result = "Err:build_step" =>
                    /\ k >= 1
                    /\ last'.text = ran[k]
                    /\ \A i \in 1..(k - 1) :
                           ran[i] \in root_dirs'[BuildDirName(p)].made
                    /\ installed_packages' = installed_packages
                    /\ (~Indexed(installed_packages, p.name, p.version)
                           => ~Indexed(installed_packages', p.name, p.version))
                    /\ pc' = "ready" ]_vars

C7_Witness ==
    /\ last.op = "build_package"
    /\ last.result = "Err:build_step"
    /\ last.text = Make
    /\ Len(last.ran) = 2
    /\ Len(PkgOf(last.name, last.version).build_steps) = 3
    /\ last.ran[1] \in root_dirs[BuildDirName(PkgOf(last.name, last.version))].made
    /\ ~Indexed(installed_packages, last.name, last.version)

\* C8: a fetch_package that leaves an artifact which does not match the
\* source checksum returns an error, and the install goes no further.
C8_ChecksumVerified ==
    (/\ last.op = "fetch_package"
     /\ file_name(PkgOf(last.name, last.version).url) \in DOMAIN downloads_dir
     /\ downloads_dir[file_name(PkgOf(last.name, last.version).url)] = "mismatch")
        => (last.result # "Ok" /\ pc = "ready")

\* C9: the rebuild fails only when installed/ cannot be read, never because
\* of a name; when it returns Ok, whatever the mapping held before, the
\* index has exactly the subdirectories of installed/ whose name holds a
\* '-' as its keys, and the record under each key is the name split at its
\* last '-': name, '-' and version give back the key, and the version holds
\* no '-'.
C9_RebuildFromDirectoryNames ==
    last.op = "sync_installed_packages" =>
        /\ (layout.installed = "dir" /\ last.text = <<>>) => last.result = "Ok"
        /\ last.result = "Ok" =>
              /\ DOMAIN installed_packages
                    = {n \in DOMAIN installed_dir :
                          installed_dir[n] = "dir" /\ HasSep(n)}
              /\ \A k \in DOMAIN installed_packages :
                    /\ IdentityKey(installed_packages[k].name,
                                   installed_packages[k].version) = k
                    /\ ~HasSep(installed_packages[k].version)

C9_Witness ==
    /\ last.op = "sync_installed_packages"
    /\ last.result = "Ok"
    /\ \E n \in DOMAIN installed_dir : installed_dir[n] = "dir" /\ ~HasSep(n)
    /\ \E k \in DOMAIN installed_packages : HasSep(installed_packages[k].name)

\* C10: after a create_directory_structure that returned Ok, the root,
\* downloads/, builds/ and installed/ all exist, and a second call, whatever
\* the environment would allow, returns Ok and leaves the layout as it is.
C10_LayoutIdempotent ==
    (last.op = "create_directory_structure" /\ last.result = "Ok") =>
        /\ \A d \in LayoutNames : exists(layout, d)
        /\ \A io \in [LayoutNames -> BOOLEAN] :
              create_directory_structure(layout, io) = [ok |-> TRUE, lay |-> layout]

C10_Witness ==
    /\ last.op = "create_directory_structure"
    /\ last.result = "Ok"
    /\ \A d \in LayoutNames : layout[d] = "dir"
    /\ installed_dir # NoEntries

\* C11: remove_package for a name and version whose key "{name}-{version}"
\* is not in the index returns 'Package not found' and changes nothing: the
\* index and every directory of the store are as they were, also when the
\* directory installed/<name>-<version> exists.
C11_RemoveAbsentChangesNothing ==
    [][ (last'.op = "remove_package" /\ pc = "ready"
            /\ IdentityKey(last'.name, last'.version)
                   \notin DOMAIN installed_packages)
        => /\ last'.result = "Err:not_found"
           /\ installed_packages' = installed_packages
           /\ installed_dir' = installed_dir
           /\ layout' = layout
           /\ downloads_dir' = downloads_dir
           /\ root_dirs' = root_dirs ]_vars

C11_Witness ==
    /\ last.op = "remove_package"
    /\ last.result = "Err:not_found"
    /\ IdentityKey(last.name, last.version) \in DOMAIN installed_dir
    /\ IdentityKey(last.name, last.version) \notin DOMAIN installed_packages
    /\ installed_packages # EmptyMap

\* the sections a manifest must have, in the order their absence is reported
RequiredSections == <<"package", "source", "build">>

SectionTag == [package |-> "[package]", source |-> "[source]", build |-> "[build]",
               dependencies |-> "[dependencies]"]

MissingSections(m) ==
    {i \in 1..Len(RequiredSections) : m[RequiredSections[i]].kind = "absent"}

FirstMissing(m) ==
    CHOOSE i \in MissingSections(m) : \A j \in MissingSections(m) : i <= j

\* the section is a table whose fields are all there and of the right type
WellFormed(m, section) ==
    /\ m[section].kind = "table"
    /\ section = "package" => m.package.name.t = "str" /\ m.package.version.t = "str"
    /\ section = "source" => m.source.url.t = "str" /\ m.source.sha256.t = "str"
    /\ section = "build" =>
          /\ m.build.system.t = "str"
          /\ m.build.arguments.t = "arr"
          /\ \A i \in 1..Len(m.build.arguments.elems) :
                 m.build.arguments.elems[i].t = "str"
    /\ section = "dependencies" =>
          \A d \in DOMAIN m.dependencies.entries : m.dependencies.entries[d].t = "str"

\* C12: a TOML manifest that lacks one or more of the sections package,
\* source and build is rejected, and the error is 'Missing [<section>]
\* section' for the first missing one in the order package, source, build.
C12_MissingSectionNamed ==
    (parsed # NotParsed /\ manifest.toml /\ MissingSections(manifest) # {}) =>
        /\ ~parsed.ok
        /\ parsed.err = <<"Missing",
                          SectionTag[RequiredSections[FirstMissing(manifest)]],
                          "section">>

\* C12, amended: such a manifest is always rejected; the error is 'Missing
\* [<section>] section' for the first missing section whenever every required
\* section before it in the order package, source, build is well formed, and
\* otherwise it is a 'Missing ..' or 'Invalid ..' error other than that one.
C12_MissingSectionNamedAfterSoundOnes ==
    (parsed # NotParsed /\ manifest.toml /\ MissingSections(manifest) # {}) =>
        LET first == FirstMissing(manifest)
            missing == <<"Missing", SectionTag[RequiredSections[first]], "section">>
        IN  /\ ~parsed.ok
            /\ (\A j \in 1..(first - 1) : WellFormed(manifest, RequiredSections[j]))
                   => parsed.err = missing
            /\ (\E j \in 1..(first - 1) : ~WellFormed(manifest, RequiredSections[j]))
                   => (parsed.err # missing /\ parsed.err[1] \in {"Missing", "Invalid"})

C12_Witness ==
    /\ parsed # NotParsed
    /\ manifest.toml
    /\ WellFormed(manifest, "package")
    /\ MissingSections(manifest) = {2, 3}
    /\ parsed.err = <<"Missing", "[source]", "section">>

\* the fields of a manifest that are present with a value of the wrong
\* type, each with its section: a field that must be a string and is not,
\* `arguments` when it is not an array or holds an element that is not a
\* string, a dependency whose constraint is not a string
WrongTypedFields(m) ==
    {<<"package", f>> : f \in {g \in {"name", "version"} : m.package[g].t = "other"}}
        \cup {<<"source", f>> : f \in {g \in {"url", "sha256"} : m.source[g].t = "other"}}
        \cup {<<"build", f>> : f \in {g \in {"system"} : m.build[g].t = "other"}}
        \cup {<<"build", f>> :
                 f \in {g \in {"arguments"} :
                           \/ m.build[g].t = "other"
                           \/ \E i \in 1..Len(m.build[g].elems) :
                                  m.build[g].elems[i].t = "other"}}
        \cup {<<"dependencies", d>> :
                 d \in {e \in DOMAIN m.dependencies.entries :
                           m.dependencies.entries[e].t = "other"}}

\* every section is a table and no field of package, source or build is absent
NothingMissing(m) ==
    /\ m.toml
    /\ \A sec \in {"package", "source", "build", "dependencies"} : m[sec].kind = "table"
    /\ m.package.name.t # "absent" /\ m.package.version.t # "absent"
    /\ m.source.url.t # "absent" /\ m.source.sha256.t # "absent"
    /\ m.build.system.t # "absent" /\ m.build.arguments.t # "absent"

Words(text) == {text[i] : i \in 1..Len(text)}

\* C13: when a manifest's only defect is one field with a value of the wrong
\* type (a package, source or build field, an element of arguments, a
\* dependency constraint), parsing fails with an 'Invalid ..' error that
\* names that field and its section; a version that is not a string gives
\* 'Invalid version in [package]'.
C13_WrongTypeNamesFieldAndSection ==
    (parsed # NotParsed /\ NothingMissing(manifest)) =>
        \A w \in WrongTypedFields(manifest) :
            WrongTypedFields(manifest) = {w} =>
                /\ ~parsed.ok
                /\ parsed.err[1] = "Invalid"
                /\ w[2] \in Words(parsed.err)
                /\ SectionTag[w[1]] \in Words(parsed.err)
                /\ w = <<"package", "version">>
                      => parsed.err = <<"Invalid", "version", "in", "[package]">>

\* C19: parsing returns an empty dependency set only for a manifest with no
\* dependencies entry or with an empty dependencies table; a dependencies
\* entry that is not a table makes parse_package_description fail.
C19_NonTableDependenciesRejected ==
    parsed # NotParsed =>
        /\ (parsed.ok /\ DOMAIN parsed.val.dependencies = {})
              => \/ manifest.dependencies.kind = "absent"
                 \/ /\ manifest.dependencies.kind = "table"
                    /\ DOMAIN manifest.dependencies.entries = {}
        /\ manifest.dependencies.kind = "other" => ~parsed.ok

\* C14: the rewritten list has as many steps as the package's, in the same
\* order: a step that starts with "./configure" is that step followed by
\* " --prefix=" and <root>/installed/<name>-<version>, every other step is
\* the step itself.
C14_StepRewriting ==
    last.op = "modified_build_steps" =>
        /\ Len(last.ran) = Len(cur.build_steps)
        /\ \A i \in 1..Len(cur.build_steps) :
              LET step == cur.build_steps[i]
              IN  IF Len(step) > 0 /\ step[1] = "./configure"
                  THEN last.ran[i] = step \o <<" --prefix=", "store/installed/">>
                                         \o cur.name \o <<"-">> \o cur.version
                  ELSE last.ran[i] = step

C14_Witness ==
    /\ last.op = "modified_build_steps"
    /\ cur.build_steps = <<(<<"sh ">> \o Configure), (Configure \o <<" --enable-x">>)>>
    /\ HasSep(cur.name)
    /\ last.ran[2] # cur.build_steps[2]

\* C15: when tar exits non-zero during build_package, build_package returns
\* an error and hands no build step to the shell, whatever the store holds.
C15_ExtractionFailureSurfaced ==
    (last.op = "build_package" /\ last.tar = "nonzero") =>
        (last.result # "Ok" /\ last.ran = <<>>)

\* C16: a package whose `make install` has never run to its end, so that no
\* install of it has succeeded, is not in the index after a restart, also
\* when a failed step left a directory installed/<name>-<version>.
C16_FailedInstallNotReported ==
    (last.op = "new" /\ last.result = "Ok") =>
        \A p \in Packages :
            (\/ BuildDirName(p) \notin DOMAIN root_dirs
             \/ \A t \in root_dirs[BuildDirName(p)].made :
                    ~StartsWith(t, MakeInstall))
                => ~Indexed(installed_packages, p.name, p.version)

\* C17: the manager creates no directory directly under the store root
\* other than downloads/, builds/ and installed/.
C17_OnlyLayoutUnderRoot ==
    DOMAIN root_dirs = {}

\* C18: a `simplex remove <name> <version>` with exactly a name and a
\* version, once the manager is constructed, calls remove_package with that
\* name and that version, and run() returns what remove_package returned:
\* no index past the end of the argument list is read.
C18_RemoveTakesNameAndVersion ==
    (/\ last.op = "run"
     /\ last.text # <<"new">>
     /\ Len(args) = 4
     /\ args[2] = <<"remove">>)
        => /\ last.result # "panic"
           /\ last.text = <<"remove_package">>
           /\ last.name = args[3]
           /\ last.version = args[4]
           /\ last.result \in {"Ok", "Err:not_found", "Err:io"}

\* the identities (name, version) an index holds
Identities(idx) == {<<idx[k].name, idx[k].version>> : k \in DOMAIN idx}

\* index and store agree: every package of the index has its directory
\* installed/<name>-<version>, and a rebuild from disk would give the same
\* identities
Agree(idx, lay, inst) ==
    /\ \A k \in DOMAIN idx :
          /\ IdentityKey(idx[k].name, idx[k].version) \in DOMAIN inst
          /\ inst[IdentityKey(idx[k].name, idx[k].version)] = "dir"
    /\ Identities(idx) = Identities(sync_installed_packages(lay, inst, TRUE).idx)

====
